---- MODULE Spec2Model ----
(***************************************************************************)
(* Model of two framework plugins:                                         *)
(*   AlCaRecoTriggerBitsRcdUpdate  (CondTools/HLT) - reads an              *)
(*       AlCaRecoTriggerBits map, removes / adds / renames keys and writes *)
(*       the result to the conditions DB once;                             *)
(*   HLTDisplacedEgammaFilter - a sequence of numeric cuts on a list of    *)
(*       candidates, accepting the event on the number of survivors.       *)
(* Floating point quantities are integers in units of 0.001.               *)
(***************************************************************************)
EXTENDS Integers, Sequences, FiniteSets, TLC

VARIABLES
  \* ---- AlCaRecoTriggerBitsRcdUpdate ----
  cfg,          \* the module's ParameterSet (const members)
  existing,     \* m_alcarecoToTrig of the AlCaRecoTriggerBits in the EventSetup
  nEventCalls,  \* nEventCalls_
  nReads,       \* number of iSetup.getData(triggerBitsToken_) calls so far
  db,           \* payloads handed to PoolDBOutputService::writeOneIOV
  log,          \* MessageLogger output
  call,         \* what the latest analyze call did (maps after each step)
  \* ---- HLTDisplacedEgammaFilter ----
  fcfg,         \* the filter's configuration members
  event,        \* the event data products the filter reads
  filterproduct,\* trigger::TriggerFilterObjectWithRefs filled by hltFilter
  accept,       \* return value of hltFilter
  fpc           \* "idle" before hltFilter ran on the event, "done" after

uvars == <<cfg, existing, nEventCalls, nReads, db, log, call>>
fvars == <<fcfg, event, filterproduct, accept, fpc>>
vars  == <<cfg, existing, nEventCalls, nReads, db, log, call,
           fcfg, event, filterproduct, accept, fpc>>

(***************************************************************************)
(* Bounds                                                                  *)
(***************************************************************************)
MaxOps   == 3   \* total number of entries in listNamesRemove, triggerListsAdd, alcarecoToReplace
MaxCalls == 3   \* analyze calls on one module instance

Keys      == {"A", "B", "C"}
PathLists == {<<"p">>, <<"q", "p">>}

SeqsUpTo(S, n) == UNION {[1..k -> S] : k \in 0..n}
Range(s) == {s[i] : i \in 1..Len(s)}

(***************************************************************************)
(* std::map<std::string, std::string> as a function on its key set         *)
(***************************************************************************)
EmptyMap == [k \in {} |-> ""]

MapFind(m, k) == k \in DOMAIN m

MapErase(m, k) == [x \in (DOMAIN m) \ {k} |-> m[x]]

MapAssign(m, k, v) == [x \in (DOMAIN m) \cup {k} |-> IF x = k THEN v ELSE m[x]]

\* AlCaRecoTriggerBits::compose: the paths merged into one string
RECURSIVE compose(_)
compose(paths) ==
  IF paths = <<>> THEN ""
  ELSE IF Len(paths) = 1 THEN paths[1]
  ELSE paths[1] \o ";" \o compose(Tail(paths))

\* the records that may be in the EventSetup
OldBits == [k \in Keys |-> "HLT_" \o k]
ExistingRecords ==
  {[k \in S |-> OldBits[k]] : S \in {{}, {"A"}, {"A", "B"}, {"A", "B", "C"}}}

AddEntries == [listName : Keys, hltPaths : PathLists]
ReplaceEntries == [oldKey : Keys, newKey : Keys]

(***************************************************************************)
(* AlCaRecoTriggerBitsRcdUpdate                                            *)
(***************************************************************************)
\* if (nEventCalls_++ > 0): the test sees the value before the increment
alreadyCalled_offByOne(n) == n > 1
alreadyCalled(n) == n > 0

\* starting from empty or existing list (a copy)
startMap_ignoreEmpty(startEmpty, rec) == rec
startMap(startEmpty, rec) == IF startEmpty THEN EmptyMap ELSE rec

RECURSIVE removeKeysFromMap_skip(_, _)
removeKeysFromMap_skip(keys, triggerMap) ==
  IF keys = <<>> THEN [thrown |-> FALSE, triggerMap |-> triggerMap]
  ELSE IF MapFind(triggerMap, Head(keys))
       THEN removeKeysFromMap_skip(Tail(keys), MapErase(triggerMap, Head(keys)))
       ELSE removeKeysFromMap_skip(Tail(keys), triggerMap)

RECURSIVE removeKeysFromMap(_, _)
removeKeysFromMap(keys, triggerMap) ==
  IF keys = <<>> THEN [thrown |-> FALSE, triggerMap |-> triggerMap]
  ELSE IF MapFind(triggerMap, Head(keys))
       THEN removeKeysFromMap(Tail(keys), MapErase(triggerMap, Head(keys)))
       ELSE [thrown |-> TRUE, triggerMap |-> triggerMap]

RECURSIVE addTriggerLists_overwrite(_, _)
addTriggerLists_overwrite(triggerListsAdd, triggerMap) ==
  IF triggerListsAdd = <<>> THEN [thrown |-> FALSE, triggerMap |-> triggerMap]
  ELSE LET iSet == Head(triggerListsAdd)
           mergedPaths == compose(iSet.hltPaths)
           filter == iSet.listName
       IN addTriggerLists_overwrite(Tail(triggerListsAdd),
                                    MapAssign(triggerMap, filter, mergedPaths))

RECURSIVE addTriggerLists(_, _)
addTriggerLists(triggerListsAdd, triggerMap) ==
  IF triggerListsAdd = <<>> THEN [thrown |-> FALSE, triggerMap |-> triggerMap]
  ELSE LET iSet == Head(triggerListsAdd)
           mergedPaths == compose(iSet.hltPaths)
           filter == iSet.listName
       IN IF MapFind(triggerMap, filter)
          THEN [thrown |-> TRUE, triggerMap |-> triggerMap]
          ELSE addTriggerLists(Tail(triggerListsAdd),
                               MapAssign(triggerMap, filter, mergedPaths))

\* one iteration of the keyPairs loop body when the old key is found
replaceOne_keepOld(triggerMap, iKey) ==
  MapAssign(triggerMap, iKey.newKey, triggerMap[iKey.oldKey])

replaceOne(triggerMap, iKey) ==
  LET bitsToReplace == triggerMap[iKey.oldKey]
  IN MapAssign(MapErase(triggerMap, iKey.oldKey), iKey.newKey, bitsToReplace)

RECURSIVE replaceKeysFromMap_continue(_, _)
replaceKeysFromMap_continue(alcarecoReplace, triggerMap) ==
  IF alcarecoReplace = <<>> THEN [ret |-> TRUE, warned |-> FALSE, triggerMap |-> triggerMap]
  ELSE IF MapFind(triggerMap, Head(alcarecoReplace).oldKey)
       THEN replaceKeysFromMap_continue(Tail(alcarecoReplace),
                                        replaceOne(triggerMap, Head(alcarecoReplace)))
       ELSE [ret |-> FALSE, warned |-> TRUE,
             triggerMap |-> replaceKeysFromMap_continue(Tail(alcarecoReplace),
                                                        triggerMap).triggerMap]

RECURSIVE replaceKeysFromMap(_, _)
replaceKeysFromMap(alcarecoReplace, triggerMap) ==
  IF alcarecoReplace = <<>> THEN [ret |-> TRUE, warned |-> FALSE, triggerMap |-> triggerMap]
  ELSE IF MapFind(triggerMap, Head(alcarecoReplace).oldKey)
       THEN replaceKeysFromMap(Tail(alcarecoReplace),
                               replaceOne(triggerMap, Head(alcarecoReplace)))
       ELSE [ret |-> FALSE, warned |-> TRUE, triggerMap |-> triggerMap]

WarnOnce     == "Warning:BadConfig:analyze:Writing to DB to be done only once"
WarnReplace  == "Warning:AlCaRecoTriggerBitsRcdUpdate:Cannot replace key"
InfoUpload   == "Info:Uploading to the database..."
InfoDone     == "Info:...done"

NoCall == [stage |-> "none", exception |-> "", start |-> EmptyMap, afterRemove |-> EmptyMap,
           afterAdd |-> EmptyMap, afterReplace |-> EmptyMap]

\* one payload handed to writeOneIOV
Payload(m, c) == [bits |-> m, since |-> c.firstRunIOV, record |-> "AlCaRecoTriggerBitsRcd"]

\* void analyze(evt, iSetup); serviceAvailable is poolDbService.isAvailable()
analyze(serviceAvailable) ==
  /\ nEventCalls < MaxCalls   \* far below the 2^32 wrap of the unsigned counter
  /\ nEventCalls' = nEventCalls + 1
  /\ UNCHANGED <<cfg, existing, fvars>>
  /\ IF alreadyCalled(nEventCalls)
     THEN /\ log' = Append(log, WarnOnce)
          /\ call' = [NoCall EXCEPT !.stage = "warned"]
          /\ UNCHANGED <<nReads, db>>
     ELSE LET start    == startMap(cfg.startEmpty, existing)
              removed  == removeKeysFromMap(cfg.listNamesRemove, start)
              added    == addTriggerLists(cfg.triggerListsAdd, removed.triggerMap)
              replaced == replaceKeysFromMap(cfg.alcarecoReplace, added.triggerMap)
              logRepl  == IF replaced.warned THEN Append(log, WarnReplace) ELSE log
          IN /\ nReads' = IF cfg.startEmpty THEN nReads ELSE nReads + 1
             /\ IF removed.thrown
                THEN /\ call' = [NoCall EXCEPT !.stage = "removeThrew", !.exception = "BadConfig",
                                               !.start = start]
                     /\ UNCHANGED <<db, log>>
                ELSE IF added.thrown
                THEN /\ call' = [NoCall EXCEPT !.stage = "addThrew", !.exception = "BadConfig",
                                               !.start = start,
                                               !.afterRemove = removed.triggerMap]
                     /\ UNCHANGED <<db, log>>
                ELSE IF ~serviceAvailable
                THEN /\ call' = [stage |-> "noService", exception |-> "NotAvailable",
                                 start |-> start,
                                 afterRemove |-> removed.triggerMap,
                                 afterAdd |-> added.triggerMap,
                                 afterReplace |-> replaced.triggerMap]
                     /\ log' = Append(logRepl, InfoUpload)
                     /\ UNCHANGED db
                ELSE /\ call' = [stage |-> "written", exception |-> "", start |-> start,
                                 afterRemove |-> removed.triggerMap,
                                 afterAdd |-> added.triggerMap,
                                 afterReplace |-> replaced.triggerMap]
                     /\ db' = Append(db, Payload(replaced.triggerMap, cfg))
                     /\ log' = Append(Append(logRepl, InfoUpload), InfoDone)

Analyze == \E serviceAvailable \in BOOLEAN : analyze(serviceAvailable)

FilterIdle ==
  /\ fcfg = [unused |-> TRUE]
  /\ event = [unused |-> TRUE]
  /\ filterproduct = <<>>
  /\ accept = FALSE
  /\ fpc = "off"

\* state after the constructor
Init ==
  /\ \E r \in SeqsUpTo(Keys, MaxOps) :
       \E a \in SeqsUpTo(AddEntries, MaxOps - Len(r)) :
         \E p \in SeqsUpTo(ReplaceEntries, MaxOps - Len(r) - Len(a)) :
           \E se \in BOOLEAN :
             cfg = [firstRunIOV |-> 1, lastRunIOV |-> -1, startEmpty |-> se,
                    listNamesRemove |-> r, triggerListsAdd |-> a, alcarecoReplace |-> p]
  /\ existing \in ExistingRecords
  /\ nEventCalls = 0
  /\ nReads = 0
  /\ db = <<>>
  /\ log = <<>>
  /\ call = NoCall
  /\ FilterIdle

Next == Analyze

Spec == Init /\ [][Next]_vars

(***************************************************************************)
(* HLTDisplacedEgammaFilter                                                *)
(***************************************************************************)
MaxTracks == 2   \* tracks in the event, single-candidate events
MaxCands  == 2   \* candidates per trigger-object list

\* |eta| limit of the barrel, and the fillDescriptions defaults (x 1000)
EtaEB              == 1479
Default_sMin_min   == 100
Default_sMin_max   == 400
Default_sMaj_min   == 0
Default_sMaj_max   == 999000
Default_seedTimeMin == -25000
Default_seedTimeMax == 25000
Default_trackPtCut == 3000
Default_trackdRCut == 500

Abs(x) == IF x < 0 THEN -x ELSE x

\* the track veto loop: counts tracks with pt >= trkPtCut within trkdRCut of
\* the candidate and leaves the loop as soon as the count exceeds maxTrkCut
RECURSIVE trackLoop(_, _, _, _, _)
trackLoop(c, tracks, dR, i, nTrk) ==
  IF i > Len(tracks) THEN nTrk
  ELSE IF tracks[i] < c.trkPtCut THEN trackLoop(c, tracks, dR, i + 1, nTrk)
  ELSE LET n2 == IF dR[i] < c.trkdRCut THEN nTrk + 1 ELSE nTrk
       IN IF n2 > c.maxTrkCut THEN n2
          ELSE trackLoop(c, tracks, dR, i + 1, n2)

\* body of the candidate loop up to the last `continue`: TRUE when the
\* candidate is skipped.  sMin, sMaj, seedTime are the values computed from
\* the seed cluster and the rechit collection chosen by |eta|.
skipped_etaInclusive(c, ref, tracks) ==
  IF c.EBOnly /\ Abs(ref.eta) > EtaEB THEN TRUE
  ELSE IF ref.sMin < c.sMin_min \/ ref.sMin > c.sMin_max THEN TRUE
  ELSE IF ref.sMaj < c.sMaj_min \/ ref.sMaj > c.sMaj_max THEN TRUE
  ELSE IF ref.seedTime < c.seedTimeMin \/ ref.seedTime > c.seedTimeMax THEN TRUE
  ELSE trackLoop(c, tracks, ref.dR, 1, 0) > c.maxTrkCut

skipped(c, ref, tracks) ==
  IF c.EBOnly /\ Abs(ref.eta) >= EtaEB THEN TRUE
  ELSE IF ref.sMin < c.sMin_min \/ ref.sMin > c.sMin_max THEN TRUE
  ELSE IF ref.sMaj < c.sMaj_min \/ ref.sMaj > c.sMaj_max THEN TRUE
  ELSE IF ref.seedTime < c.seedTimeMin \/ ref.seedTime > c.seedTimeMax THEN TRUE
  ELSE trackLoop(c, tracks, ref.dR, 1, 0) > c.maxTrkCut

\* PrevFilterOutput->getObjects(TriggerCluster, ...), and TriggerPhoton when
\* that came back empty
recoecalcandsOf(ev) == IF ev.clusters = <<>> THEN ev.photons ELSE ev.clusters

\* the loop over recoecalcands: n and the objects added so far
RECURSIVE candLoop(_, _, _, _, _)
candLoop(c, ev, i, n, objects) ==
  LET cands == recoecalcandsOf(ev)
  IN IF i > Len(cands) THEN [n |-> n, objects |-> objects]
     ELSE IF skipped(c, cands[i], ev.tracks)
          THEN candLoop(c, ev, i + 1, n, objects)
          ELSE candLoop(c, ev, i + 1, n + 1,
                        Append(objects, [id |-> "TriggerCluster", ref |-> i]))

\* bool accept(n >= ncandcut_)
acceptDecision_strict(n, ncandcut) == n > ncandcut
acceptDecision(n, ncandcut) == n >= ncandcut

\* bool hltFilter(iEvent, iSetup, filterproduct)
hltFilter ==
  /\ fpc = "idle"
  /\ LET tags == IF fcfg.saveTags THEN Append(filterproduct.tags, fcfg.l1EGTag)
                 ELSE filterproduct.tags
         res  == candLoop(fcfg, event, 1, 0, filterproduct.objects)
     IN /\ filterproduct' = [tags |-> tags, objects |-> res.objects]
        /\ accept' = acceptDecision(res.n, fcfg.ncandcut)
  /\ fpc' = "done"
  /\ UNCHANGED <<fcfg, event, uvars>>

\* ---- events and configurations the filter is run on ----
EtaVals      == {1478, 1479, -1479}
SMinVals     == {Default_sMin_min - 1, Default_sMin_min, Default_sMin_max, Default_sMin_max + 1}
SMajVals     == {Default_sMaj_min - 1, Default_sMaj_min, Default_sMaj_max, Default_sMaj_max + 1}
SeedTimeVals == {Default_seedTimeMin - 1, Default_seedTimeMin,
                 Default_seedTimeMax, Default_seedTimeMax + 1}
PtVals       == {Default_trackPtCut - 1, Default_trackPtCut}
DRVals       == {Default_trackdRCut - 1, Default_trackdRCut}
NCandCutVals == {-1, 0, 1, 2}

FilterConfig(saveTags, ncandcut, EBOnly, maxTrkCut) ==
  [saveTags |-> saveTags, l1EGTag |-> "hltL1IsoRecoEcalCandidate",
   ncandcut |-> ncandcut, EBOnly |-> EBOnly, maxTrkCut |-> maxTrkCut,
   sMin_min |-> Default_sMin_min, sMin_max |-> Default_sMin_max,
   sMaj_min |-> Default_sMaj_min, sMaj_max |-> Default_sMaj_max,
   seedTimeMin |-> Default_seedTimeMin, seedTimeMax |-> Default_seedTimeMax,
   trkPtCut |-> Default_trackPtCut, trkdRCut |-> Default_trackdRCut]

\* one candidate, every combination of values around the thresholds
SingleCandInit ==
  /\ \E EBOnly \in BOOLEAN, maxTrkCut \in {-1, 0, 1} :
       fcfg = FilterConfig(TRUE, 1, EBOnly, maxTrkCut)
  /\ \E nT \in 0..MaxTracks :
       \E tracks \in [1..nT -> PtVals], dR \in [1..nT -> DRVals],
          eta \in EtaVals, sMin \in SMinVals, sMaj \in SMajVals, seedTime \in SeedTimeVals :
         event = [clusters |-> <<[eta |-> eta, sMin |-> sMin, sMaj |-> sMaj,
                                  seedTime |-> seedTime, dR |-> dR]>>,
                  photons |-> <<>>, tracks |-> tracks]

\* several candidates of a few kinds, one track above the pt cut
CandKinds ==
  { [eta |-> 1478, sMin |-> Default_sMin_min, sMaj |-> Default_sMaj_max,
     seedTime |-> Default_seedTimeMax, dR |-> <<Default_trackdRCut>>],
    [eta |-> -1479, sMin |-> Default_sMin_max, sMaj |-> Default_sMaj_min,
     seedTime |-> Default_seedTimeMin, dR |-> <<Default_trackdRCut>>],
    [eta |-> 1478, sMin |-> Default_sMin_max + 1, sMaj |-> Default_sMaj_min,
     seedTime |-> Default_seedTimeMin, dR |-> <<Default_trackdRCut - 1>>],
    [eta |-> 1478, sMin |-> Default_sMin_max, sMaj |-> Default_sMaj_min,
     seedTime |-> Default_seedTimeMin, dR |-> <<Default_trackdRCut - 1>>] }

ManyCandInit ==
  /\ \E saveTags \in BOOLEAN, ncandcut \in NCandCutVals, EBOnly \in BOOLEAN,
        maxTrkCut \in {0, 1} :
       fcfg = FilterConfig(saveTags, ncandcut, EBOnly, maxTrkCut)
  /\ \E clusters \in SeqsUpTo(CandKinds, MaxCands), photons \in SeqsUpTo(CandKinds, MaxCands) :
       event = [clusters |-> clusters, photons |-> photons,
                tracks |-> <<Default_trackPtCut>>]

UpdateIdle ==
  /\ cfg = [unused |-> TRUE]
  /\ existing = EmptyMap
  /\ nEventCalls = 0
  /\ nReads = 0
  /\ db = <<>>
  /\ log = <<>>
  /\ call = NoCall

InitFilter ==
  /\ SingleCandInit \/ ManyCandInit
  /\ filterproduct = [tags |-> <<>>, objects |-> <<>>]
  /\ accept = FALSE
  /\ fpc = "idle"
  /\ UpdateIdle

NextFilter == hltFilter

SpecFilter == InitFilter /\ [][NextFilter]_vars

(***************************************************************************)
(* Properties of AlCaRecoTriggerBitsRcdUpdate                              *)
(***************************************************************************)
FirstCallDone == call.stage \in {"removeThrew", "addThrew", "noService", "written"}
ReachedWrite  == call.stage \in {"noService", "written"}
Written       == db[Len(db)].bits

\* a single rename, stated on the key set
Renamed(m, pair) ==
  [k \in ((DOMAIN m) \ {pair.oldKey}) \cup {pair.newKey} |->
     IF k = pair.newKey THEN m[pair.oldKey] ELSE m[k]]

\* every pair whose old key is present is applied, the others are skipped
RECURSIVE RenameEach(_, _)
RenameEach(m, pairs) ==
  IF pairs = <<>> THEN m
  ELSE RenameEach(IF pairs[1].oldKey \in DOMAIN m THEN Renamed(m, pairs[1]) ELSE m,
                  Tail(pairs))

\* number of leading pairs whose old key is present when its turn comes
RECURSIVE AppliedCount(_, _)
AppliedCount(m, pairs) ==
  IF pairs = <<>> \/ pairs[1].oldKey \notin DOMAIN m THEN 0
  ELSE 1 + AppliedCount(Renamed(m, pairs[1]), Tail(pairs))

RemovedAll(m, keys) == [k \in (DOMAIN m) \ Range(keys) |-> m[k]]

AddedAll(m, adds) ==
  [k \in (DOMAIN m) \cup {adds[i].listName : i \in 1..Len(adds)} |->
     IF \E i \in 1..Len(adds) : adds[i].listName = k
     THEN compose(adds[CHOOSE i \in 1..Len(adds) : adds[i].listName = k].hltPaths)
     ELSE m[k]]

ExpectedStart == IF cfg.startEmpty THEN EmptyMap ELSE existing
ExpectedBeforeRename ==
  AddedAll(RemovedAll(ExpectedStart, cfg.listNamesRemove), cfg.triggerListsAdd)

\* C1: the database write happens at most once and only in the first analyze
\* call; every later call only logs the warning: it reads nothing, builds no
\* map and writes nothing.
C1_WriteOnce ==
  [][ /\ Len(db') <= 1
      /\ (nEventCalls >= 1 /\ nEventCalls' # nEventCalls) =>
            /\ db' = db
            /\ nReads' = nReads
            /\ log' = Append(log, WarnOnce)
            /\ call' = [NoCall EXCEPT !.stage = "warned"]
            /\ existing' = existing ]_vars

C1_Witness == nEventCalls >= 2 /\ Len(db) = 1 /\ call.stage = "warned"

\* C2 as stated: the written map is the starting map with all removals, then
\* all additions, then all renames applied.
C2_AllRenamesApplied ==
  call.stage = "written" =>
    /\ Len(db) = 1
    /\ Written = RenameEach(ExpectedBeforeRename, cfg.alcarecoReplace)
    /\ (~cfg.startEmpty => existing = call.start)

\* C2 amended: the written map is the starting map (empty when startEmpty,
\* else a copy of the existing record) with all removals, then all additions,
\* then the renames up to the first pair whose oldKey is missing; the record
\* that was read is unchanged.
C2_WrittenMap ==
  call.stage = "written" =>
    /\ Len(db) = 1
    /\ Written = RenameEach(ExpectedBeforeRename,
                            SubSeq(cfg.alcarecoReplace, 1,
                                   AppliedCount(ExpectedBeforeRename, cfg.alcarecoReplace)))
    /\ call.start = ExpectedStart
    /\ (~cfg.startEmpty => existing = call.start /\ nReads = 1)
    /\ (cfg.startEmpty => nReads = 0)

C2_Witness ==
  /\ call.stage = "written"
  /\ ~cfg.startEmpty
  /\ cfg.listNamesRemove # <<>>
  /\ cfg.triggerListsAdd # <<>>
  /\ cfg.alcarecoReplace # <<>>
  /\ AppliedCount(call.afterAdd, cfg.alcarecoReplace) = Len(cfg.alcarecoReplace)
  /\ Written # existing

\* some key of listNamesRemove is not in the map when its turn comes
RemoveMisses ==
  \E i \in 1..Len(cfg.listNamesRemove) :
     \/ cfg.listNamesRemove[i] \notin DOMAIN ExpectedStart
     \/ \E j \in 1..(i - 1) : cfg.listNamesRemove[j] = cfg.listNamesRemove[i]

\* C5: a key of listNamesRemove that is missing when processed makes analyze
\* throw BadConfig with nothing added, renamed or written; otherwise the
\* listed keys are erased and all other keys keep their values.
C5_RemoveKeys ==
  FirstCallDone =>
    /\ RemoveMisses =>
         /\ call.stage = "removeThrew"
         /\ call.exception = "BadConfig"
         /\ db = <<>>
         /\ call.afterAdd = EmptyMap /\ call.afterReplace = EmptyMap
    /\ ~RemoveMisses =>
         /\ call.stage # "removeThrew"
         /\ DOMAIN call.afterRemove = (DOMAIN ExpectedStart) \ Range(cfg.listNamesRemove)
         /\ \A k \in DOMAIN call.afterRemove : call.afterRemove[k] = ExpectedStart[k]

C5_Witness ==
  /\ call.stage = "removeThrew"
  /\ Len(cfg.listNamesRemove) >= 2
  /\ cfg.listNamesRemove[1] = cfg.listNamesRemove[2]
  /\ cfg.listNamesRemove[1] \in DOMAIN call.start
  /\ db = <<>>

\* some listName of triggerListsAdd is already a key when its turn comes
AddCollides ==
  \E i \in 1..Len(cfg.triggerListsAdd) :
     \/ cfg.triggerListsAdd[i].listName \in DOMAIN call.afterRemove
     \/ \E j \in 1..(i - 1) :
          cfg.triggerListsAdd[j].listName = cfg.triggerListsAdd[i].listName

RemovedAndAdded ==
  {i \in 1..Len(cfg.triggerListsAdd) :
     cfg.triggerListsAdd[i].listName \in Range(cfg.listNamesRemove)}

RenameTouches(k) ==
  \E i \in 1..Len(cfg.alcarecoReplace) :
     cfg.alcarecoReplace[i].oldKey = k \/ cfg.alcarecoReplace[i].newKey = k

AddNeverOverwrites ==
  /\ AddCollides =>
       /\ call.stage = "addThrew"
       /\ call.exception = "BadConfig"
       /\ db = <<>>
  /\ ~AddCollides =>
       /\ call.stage # "addThrew"
       /\ \A i \in RemovedAndAdded :
            call.afterAdd[cfg.triggerListsAdd[i].listName] =
               compose(cfg.triggerListsAdd[i].hltPaths)

\* C6 as stated: a listName that is also removed is accepted and the written
\* map holds the newly composed paths for it.
C6_WrittenHoldsNewPaths ==
  (FirstCallDone /\ call.stage # "removeThrew") =>
    /\ AddNeverOverwrites
    /\ call.stage = "written" =>
         \A i \in RemovedAndAdded :
            /\ cfg.triggerListsAdd[i].listName \in DOMAIN Written
            /\ Written[cfg.triggerListsAdd[i].listName] =
                 compose(cfg.triggerListsAdd[i].hltPaths)

\* C6 amended: addTriggerLists throws BadConfig, with no write, when a
\* listName is already a key at its turn; a listName that is also removed is
\* accepted, the map holds the newly composed paths for it after the
\* additions, and so does the written map unless alcarecoToReplace names that
\* key as oldKey or newKey.
C6_AddTriggerLists ==
  (FirstCallDone /\ call.stage # "removeThrew") =>
    /\ AddNeverOverwrites
    /\ call.stage = "written" =>
         \A i \in RemovedAndAdded :
            ~RenameTouches(cfg.triggerListsAdd[i].listName) =>
               /\ cfg.triggerListsAdd[i].listName \in DOMAIN Written
               /\ Written[cfg.triggerListsAdd[i].listName] =
                    compose(cfg.triggerListsAdd[i].hltPaths)

C6_Witness ==
  /\ call.stage = "written"
  /\ ~cfg.startEmpty
  /\ \E i \in RemovedAndAdded :
        LET k == cfg.triggerListsAdd[i].listName
        IN /\ k \in DOMAIN existing
           /\ k \in DOMAIN Written
           /\ Written[k] # existing[k]
           /\ Written[k] = compose(cfg.triggerListsAdd[i].hltPaths)

NApplied == AppliedCount(call.afterAdd, cfg.alcarecoReplace)

\* C7: a rename pair whose oldKey is missing only logs a warning; that pair
\* and all later pairs stay unapplied, earlier renames stay, and analyze goes
\* on to the database write.
C7_ReplaceMissingKey ==
  (FirstCallDone /\ call.exception # "BadConfig") =>
    /\ ReachedWrite
    /\ call.afterReplace =
         RenameEach(call.afterAdd, SubSeq(cfg.alcarecoReplace, 1, NApplied))
    /\ NApplied < Len(cfg.alcarecoReplace) =>
         /\ WarnReplace \in Range(log)
         /\ InfoUpload \in Range(log)
         /\ call.exception \in {"", "NotAvailable"}
         /\ call.exception = "" => (Len(db) = 1 /\ Written = call.afterReplace)
    /\ NApplied = Len(cfg.alcarecoReplace) => WarnReplace \notin Range(log)

C7_Witness ==
  /\ call.stage = "written"
  /\ NApplied >= 1
  /\ NApplied + 1 < Len(cfg.alcarecoReplace)
  /\ cfg.alcarecoReplace[NApplied + 2].oldKey \in DOMAIN call.afterReplace
  /\ cfg.alcarecoReplace[1].oldKey # cfg.alcarecoReplace[1].newKey
  /\ Written = call.afterReplace

\* the map after the first n pairs went through replaceKeysFromMap
AfterPairs(n) ==
  replaceKeysFromMap(SubSeq(cfg.alcarecoReplace, 1, n), call.afterAdd).triggerMap

\* C8: a rename pair whose oldKey is present moves its value to newKey,
\* drops oldKey unless both are equal (then nothing changes), keeps every
\* other key, silently overwrites an entry under newKey (one entry fewer);
\* pairs apply one after another, so (A,B),(B,C) leaves A's value under C.
C8_ReplaceSemantics ==
  ReachedWrite =>
    /\ call.afterReplace = AfterPairs(Len(cfg.alcarecoReplace))
    /\ \A n \in 1..NApplied :
         LET before == AfterPairs(n - 1)
             after  == AfterPairs(n)
             old    == cfg.alcarecoReplace[n].oldKey
             new    == cfg.alcarecoReplace[n].newKey
         IN /\ old \in DOMAIN before
            /\ new \in DOMAIN after
            /\ after[new] = before[old]
            /\ old # new => old \notin DOMAIN after
            /\ old = new => after = before
            /\ \A k \in (DOMAIN before) \ {old, new} :
                  k \in DOMAIN after /\ after[k] = before[k]
            /\ (DOMAIN after) \subseteq (DOMAIN before) \cup {new}
            /\ (new \in DOMAIN before /\ new # old) =>
                  Cardinality(DOMAIN after) = Cardinality(DOMAIN before) - 1
            /\ (new \notin DOMAIN before) =>
                  Cardinality(DOMAIN after) = Cardinality(DOMAIN before)
            /\ (n >= 2 /\ cfg.alcarecoReplace[n - 1].newKey = old) =>
                  after[new] = AfterPairs(n - 2)[cfg.alcarecoReplace[n - 1].oldKey]

C8_Witness ==
  /\ call.stage = "written"
  /\ NApplied >= 2
  /\ cfg.alcarecoReplace[1].newKey = cfg.alcarecoReplace[2].oldKey
  /\ Cardinality({cfg.alcarecoReplace[1].oldKey, cfg.alcarecoReplace[1].newKey,
                  cfg.alcarecoReplace[2].newKey}) = 3
  /\ cfg.alcarecoReplace[2].newKey \in DOMAIN call.afterAdd
  /\ Written[cfg.alcarecoReplace[2].newKey] = call.afterAdd[cfg.alcarecoReplace[1].oldKey]

(***************************************************************************)
(* Properties of HLTDisplacedEgammaFilter                                  *)
(***************************************************************************)
Cands == recoecalcandsOf(event)
AddedRefs == {filterproduct.objects[j].ref : j \in 1..Len(filterproduct.objects)}

NearbyTracks(ref) ==
  {t \in 1..Len(event.tracks) :
     event.tracks[t] >= fcfg.trkPtCut /\ ref.dR[t] < fcfg.trkdRCut}

PassesEveryCut(ref) ==
  /\ fcfg.EBOnly => Abs(ref.eta) < EtaEB
  /\ fcfg.sMin_min <= ref.sMin /\ ref.sMin <= fcfg.sMin_max
  /\ fcfg.sMaj_min <= ref.sMaj /\ ref.sMaj <= fcfg.sMaj_max
  /\ fcfg.seedTimeMin <= ref.seedTime /\ ref.seedTime <= fcfg.seedTimeMax
  /\ Cardinality(NearbyTracks(ref)) <= fcfg.maxTrkCut

PassingIdx == {i \in 1..Len(Cands) : PassesEveryCut(Cands[i])}

\* C3: a candidate is added to the filter product iff it passes every cut:
\* |eta| < 1.479 under EBOnly (exclusive), sMin, sMaj and seedTime inside
\* their inclusive ranges, and at most maxTrackCut nearby tracks.
C3_CutsDecideMembership ==
  fpc = "done" =>
    \A i \in 1..Len(Cands) : (i \in AddedRefs) <=> PassesEveryCut(Cands[i])

C3_Witness ==
  /\ fpc = "done"
  /\ fcfg.EBOnly
  /\ \E i \in AddedRefs :
        /\ Abs(Cands[i].eta) = EtaEB - 1
        /\ Cands[i].sMin = fcfg.sMin_min
        /\ Cands[i].sMaj = fcfg.sMaj_max
        /\ Cands[i].seedTime = fcfg.seedTimeMax
  /\ \E i \in (1..Len(Cands)) \ AddedRefs :
        /\ Abs(Cands[i].eta) = EtaEB
        /\ Cands[i].eta < 0
        /\ Cands[i].sMin = fcfg.sMin_max
        /\ Cands[i].seedTime = fcfg.seedTimeMin
        /\ NearbyTracks(Cands[i]) = {}

\* C4: hltFilter returns true iff the number of passing candidates is at
\* least ncandcut; exactly the passing candidates are added, once each, as
\* TriggerCluster objects in input order; with ncandcut <= 0 the event is
\* accepted whatever the candidate list holds.
C4_AcceptDecision ==
  fpc = "done" =>
    /\ accept <=> (Cardinality(PassingIdx) >= fcfg.ncandcut)
    /\ Len(filterproduct.objects) = Cardinality(PassingIdx)
    /\ AddedRefs = PassingIdx
    /\ \A j \in 1..Len(filterproduct.objects) :
          /\ filterproduct.objects[j].id = "TriggerCluster"
          /\ \A k \in 1..(j - 1) :
                filterproduct.objects[k].ref < filterproduct.objects[j].ref
    /\ fcfg.ncandcut <= 0 => accept
    /\ filterproduct.tags = IF fcfg.saveTags THEN <<fcfg.l1EGTag>> ELSE <<>>

C4_Witness ==
  /\ fpc = "done"
  /\ accept
  /\ fcfg.ncandcut = 1
  /\ Len(Cands) = 2
  /\ filterproduct.objects = <<[id |-> "TriggerCluster", ref |-> 2]>>

====
